---- MODULE Spec2Model ----
(***************************************************************************)
(* Model of the finite-difference gradient descent optimiser               *)
(* (src/gradient_decent.h) and of its constraint penalty system            *)
(* (src/mathematical_constraint.h).                                        *)
(*                                                                         *)
(* Numbers.  The program computes in IEEE floating point (returnType and   *)
(* argType... are double in src/example.cpp).  The model computes in a     *)
(* decimal floating point format with the same shape: a number is a pair   *)
(* <<m, e>> of value m * 10^e with a four digit mantissa                   *)
(* (MantLo <= |m| <= MantHi) or m = 0, results are rounded to the nearest  *)
(* representable number, a result too large becomes an infinity, a result  *)
(* too small becomes zero, and 0/0, Inf-Inf and 0*Inf are NaN.  Every      *)
(* comparison with NaN is false, as in the program.  Zero is unsigned.     *)
(***************************************************************************)
EXTENDS Integers, Sequences, FiniteSets, TLC

\* ------------------------------------------------------------------------
\* Floating point format
\* ------------------------------------------------------------------------

\* Largest decimal exponent of a finite number: finite numbers are
\* m * 10^e with -ExpRange <= e <= ExpRange.
ExpRange == 20

MantLo == 10 * 10 * 10
MantHi == 10 * MantLo - 1
ExpInf == ExpRange + 1

Zero == <<0, 0>>
PInf == <<1, ExpInf>>
NInf == <<-1, ExpInf>>
NaN == <<0, ExpInf>>

IsNaN(a) == a = NaN
IsInf(a) == a = PInf \/ a = NInf
IsFinite(a) == a[2] # ExpInf

AbsInt(n) == IF n < 0 THEN -n ELSE n
SignInt(n) == IF n < 0 THEN -1 ELSE IF n = 0 THEN 0 ELSE 1

Pow10Table == <<1, 10, 100, 1000, 10000, 100000, 1000000, 10000000,
                100000000, 1000000000>>
Pow10(k) == Pow10Table[k + 1]

\* Number of decimal digits of n >= 1.
NDigits(n) ==
    IF n < 10000
    THEN (IF n < 100 THEN (IF n < 10 THEN 1 ELSE 2)
          ELSE (IF n < 1000 THEN 3 ELSE 4))
    ELSE IF n < 10000000
    THEN (IF n < 100000 THEN 5 ELSE IF n < 1000000 THEN 6 ELSE 7)
    ELSE (IF n < 100000000 THEN 8 ELSE IF n < 1000000000 THEN 9 ELSE 10)

\* n >= 1 with its digits after the fourth dropped (k > 0, rounding to
\* nearest) or padded to four digits (k <= 0).
Round(n, k) ==
    IF k > 0 THEN (n + Pow10(k) \div 2) \div Pow10(k) ELSE n * Pow10(-k)

\* The number of sign s, mantissa mm and exponent ee, if the format has it.
Clip(s, mm, ee) ==
    IF ee > ExpRange THEN (IF s > 0 THEN PInf ELSE NInf)
    ELSE IF ee < -ExpRange THEN Zero
    ELSE <<s * mm, ee>>

\* Rounding up may give a fifth digit.
Pack(s, r, ee) ==
    IF r > MantHi THEN Clip(s, MantLo, ee + 1) ELSE Clip(s, r, ee)

\* The number nearest to m * 10^e.
Norm(m, e) ==
    IF m = 0 THEN Zero
    ELSE Pack(SignInt(m), Round(AbsInt(m), NDigits(AbsInt(m)) - 4),
              e + NDigits(AbsInt(m)) - 4)

Neg(a) == <<-a[1], a[2]>>
Abs(a) == <<AbsInt(a[1]), a[2]>>

\* The sum of two finite numbers, hi of the larger exponent: lo is absorbed
\* when it is more than five decimal orders smaller.
AddAligned(hi, lo) ==
    IF hi[2] - lo[2] > 5 THEN hi
    ELSE Norm(hi[1] * Pow10(hi[2] - lo[2]) + lo[1], lo[2])

Add(a, b) ==
    IF IsNaN(a) \/ IsNaN(b) THEN NaN
    ELSE IF IsInf(a) THEN (IF IsInf(b) /\ b # a THEN NaN ELSE a)
    ELSE IF IsInf(b) THEN b
    ELSE IF a = Zero THEN b
    ELSE IF b = Zero THEN a
    ELSE IF a[2] >= b[2] THEN AddAligned(a, b)
    ELSE AddAligned(b, a)

Sub(a, b) == Add(a, Neg(b))

Mul(a, b) ==
    IF IsNaN(a) \/ IsNaN(b) THEN NaN
    ELSE IF IsInf(a) \/ IsInf(b)
         THEN (IF a = Zero \/ b = Zero THEN NaN
               ELSE IF SignInt(a[1]) = SignInt(b[1]) THEN PInf ELSE NInf)
    ELSE IF a = Zero \/ b = Zero THEN Zero
    ELSE Norm(a[1] * b[1], a[2] + b[2])

\* Division does not trap: x/0 is an infinity (NaN for 0/0).
Div(a, b) ==
    IF IsNaN(a) \/ IsNaN(b) THEN NaN
    ELSE IF IsInf(a)
         THEN (IF IsInf(b) THEN NaN
               ELSE IF (a[1] > 0) = (b[1] >= 0) THEN PInf ELSE NInf)
    ELSE IF IsInf(b) THEN Zero
    ELSE IF b = Zero
         THEN (IF a = Zero THEN NaN ELSE IF a[1] > 0 THEN PInf ELSE NInf)
    ELSE IF a = Zero THEN Zero
    ELSE Norm(SignInt(a[1]) * SignInt(b[1])
                 * ((AbsInt(a[1]) * Pow10(5)) \div AbsInt(b[1])),
              a[2] - b[2] - 5)

\* Magnitude order of two numbers that are not NaN.
MagLt(a, b) ==
    IF b[1] = 0 THEN FALSE
    ELSE IF a[1] = 0 THEN TRUE
    ELSE a[2] < b[2] \/ (a[2] = b[2] /\ AbsInt(a[1]) < AbsInt(b[1]))

Lt(a, b) ==
    /\ ~IsNaN(a)
    /\ ~IsNaN(b)
    /\ \/ SignInt(a[1]) < SignInt(b[1])
       \/ SignInt(a[1]) = 1 /\ SignInt(b[1]) = 1 /\ MagLt(a, b)
       \/ SignInt(a[1]) = -1 /\ SignInt(b[1]) = -1 /\ MagLt(b, a)

Gt(a, b) == Lt(b, a)
Le(a, b) == ~IsNaN(a) /\ ~IsNaN(b) /\ ~Lt(b, a)
Ge(a, b) == Le(b, a)

\* Integer square root: the largest r with r * r <= n, searched in lo..hi.
RECURSIVE ISqrt(_, _, _)
ISqrt(n, lo, hi) ==
    IF lo >= hi THEN lo
    ELSE IF ((lo + hi + 1) \div 2) * ((lo + hi + 1) \div 2) <= n
         THEN ISqrt(n, (lo + hi + 1) \div 2, hi)
    ELSE ISqrt(n, lo, (lo + hi + 1) \div 2 - 1)

Sqrt(a) ==
    IF IsNaN(a) THEN NaN
    ELSE IF a = Zero THEN Zero
    ELSE IF a[1] < 0 THEN NaN
    ELSE IF a = PInf THEN PInf
    ELSE IF a[2] % 2 # 0
         THEN Norm(ISqrt(a[1] * 100000, 0, 31622), (a[2] - 5) \div 2)
    ELSE Norm(ISqrt(a[1] * 10000, 0, 31622), (a[2] - 4) \div 2)

\* ------------------------------------------------------------------------
\* Instantiation: the template parameters of the classes
\* ------------------------------------------------------------------------

\* sizeof...(argType): the number of optimisation variables.
NDim == 2
Dims == 1..NDim

\* sizeof...(constraintFuncTypes): the number of constraints of a manager.
constraint_count == 2
Cons == 1..constraint_count

\* A number written m * 10^e in the program text.
F(m, e) == Norm(m, e)

\* std::numeric_limits<T>::max()
MaxFloat == <<MantHi, ExpRange>>

\* ------------------------------------------------------------------------
\* User supplied callables.  They are opaque to the program; the model
\* draws them from small families of pure functions of the point.
\* ------------------------------------------------------------------------

Sq(a) == Mul(a, a)

\* Objective functions, by name.
\*   "bowl"    (x - 1)^2 + (y + 1)^2, convex with its minimum at (1, -1)
\*   "saddle"  x * y
\*   "trough"  (x - 1)^2, the same for every y
\*   "well"    0 where wellLow <= x <= wellHigh, 1 elsewhere
\*   "basin"   0 where basinLow <= x <= wellHigh, 1 elsewhere
\*   "spike"   0 where x = wellHigh, 1 elsewhere
wellHigh == F(1, 0)
wellLow == F(9565, -4)
basinLow == F(9560, -4)

Plateau(x, low, high) ==
    IF IsNaN(x) THEN NaN
    ELSE IF Le(low, x) /\ Le(x, high) THEN Zero ELSE F(1, 0)

ObjectiveAt(f, p) ==
    CASE f = "bowl"   -> Add(Sq(Sub(p[1], F(1, 0))), Sq(Add(p[2], F(1, 0))))
      [] f = "saddle" -> Mul(p[1], p[2])
      [] f = "trough" -> Sq(Sub(p[1], F(1, 0)))
      [] f = "well"   -> Plateau(p[1], wellLow, wellHigh)
      [] f = "basin"  -> Plateau(p[1], basinLow, wellHigh)
      [] OTHER        -> Plateau(p[1], wellHigh, wellHigh)

\* Constraint functions, by name: the value returned, and whether the call
\* throws a std::runtime_error instead of returning.
\*   "sum"     x + y
\*   "first"   x
\*   "partial" x, defined for x >= 1 only: throws for x < 1
ConstraintValueAt(g, p) ==
    CASE g = "sum" -> Add(p[1], p[2])
      [] OTHER     -> p[1]

ConstraintThrowsAt(g, p) == g = "partial" /\ Lt(p[1], F(1, 0))

\* ------------------------------------------------------------------------
\* Constraint penalty system (src/mathematical_constraint.h)
\* ------------------------------------------------------------------------

slope == F(1, 9)
default_operator == "<="
default_tolerance == F(1, -3)

\* add_operators storing whatever it is given.
StoredUnchecked(IN_OPERATORS) == IN_OPERATORS

\* add_operators: a vector of the wrong length is replaced by the default.
StoredOperators(IN_OPERATORS) ==
    IF constraint_count = Len(IN_OPERATORS) THEN IN_OPERATORS
    ELSE [i \in Cons |-> default_operator]

\* add_tolerances: a vector of the wrong length is replaced by the default.
StoredTolerances(IN_TOLERANCES) ==
    IF constraint_count = Len(IN_TOLERANCES) THEN IN_TOLERANCES
    ELSE [i \in Cons |-> default_tolerance]

\* The comparison an operator makes of obtained - required with zero to
\* find a violation; "=" has none.
OperatorViolated(IN_OPERATOR, diff) ==
    \/ IN_OPERATOR = "<" /\ Ge(diff, Zero)
    \/ IN_OPERATOR = "<=" /\ Gt(diff, Zero)
    \/ IN_OPERATOR = ">" /\ Le(diff, Zero)
    \/ IN_OPERATOR = ">=" /\ Lt(diff, Zero)
    \/ IN_OPERATOR = "="

\* get_constraint_violation without the tolerance: any difference on the
\* wrong side counts.
ViolationIgnoringTolerance(diff, IN_OPERATOR, IN_TOLERANCE) ==
    IF OperatorViolated(IN_OPERATOR, diff) THEN Abs(diff) ELSE Zero

\* What get_constraint_violation returns, diff being its local
\* IN_OBTAINED - IN_REQUIRED.
ViolationOf(diff, IN_OPERATOR, IN_TOLERANCE) ==
    IF OperatorViolated(IN_OPERATOR, diff) /\ Gt(Abs(diff), IN_TOLERANCE)
    THEN Abs(diff)
    ELSE IF IN_OPERATOR = "!=" /\ Lt(Abs(diff), IN_TOLERANCE) THEN MaxFloat
    ELSE Zero

get_constraint_violation(IN_OBTAINED, IN_REQUIRED, IN_OPERATOR, IN_TOLERANCE) ==
    ViolationOf(Sub(IN_OBTAINED, IN_REQUIRED), IN_OPERATOR, IN_TOLERANCE)

\* The constraints are called in order; the first that throws ends the loop.
\* 0 when none throws.
FirstThrowing(funcs, p) ==
    IF \E i \in Cons : ConstraintThrowsAt(funcs[i], p)
    THEN CHOOSE i \in Cons :
            /\ ConstraintThrowsAt(funcs[i], p)
            /\ \A j \in Cons : j < i => ~ConstraintThrowsAt(funcs[j], p)
    ELSE 0

\* *RETURN_POINTER = FUNC(args...) for every constraint called before the
\* first that throws; the others keep the value of the previous evaluation.
ReturnTupleAfter(funcs, old, p) ==
    [i \in Cons |-> IF FirstThrowing(funcs, p) = 0 \/ i < FirstThrowing(funcs, p)
                    THEN ConstraintValueAt(funcs[i], p)
                    ELSE old[i]]

\* penalty += get_constraint_violation(...) over the constraints 1..n,
\* starting from start.
RECURSIVE SumViolations(_, _, _, _, _, _)
SumViolations(n, start, obtained, required, ops, tols) ==
    IF n = 0 THEN start
    ELSE Add(SumViolations(n - 1, start, obtained, required, ops, tols),
             get_constraint_violation(obtained[n], required[n], ops[n], tols[n]))

\* get_penalty adding to the penalty of the previous call.
PenaltyAccumulated(old_penalty) == old_penalty

\* The value get_penalty starts the sum from: this->penalty = {}.
PenaltyStart(old_penalty) == Zero

\* The handler of get_penalty without its reset of the penalty.
PenaltyKept(old_penalty) == old_penalty

\* The value get_penalty leaves when a constraint throws: the handler's
\* this->penalty = {}.
PenaltyOnThrow(old_penalty) == Zero

\* get_penalty: the new value of the penalty field.
PenaltyAfter(funcs, required, ops, tols, old_penalty, p) ==
    IF FirstThrowing(funcs, p) # 0
    THEN PenaltyOnThrow(old_penalty)
    ELSE Mul(slope,
             SumViolations(constraint_count, PenaltyStart(old_penalty),
                           [i \in Cons |-> ConstraintValueAt(funcs[i], p)],
                           required, ops, tols))

\* ------------------------------------------------------------------------
\* State
\* ------------------------------------------------------------------------

VARIABLES
    \* gd::gradient_decent
    objective,                \* function: the wrapped objective (by name)
    optimal_point,
    old_optimal_point,
    optimal_val,
    max_eval,
    tolerance,
    current_tolerance,
    lower_bounds,
    upper_bounds,
    learning_rate,
    step_scales,
    derivatives,
    derivative_high,
    first_iteration_settings,
    constraints_on,
    use_classic_gd,
    use_scaling,
    func_call_count,
    \* aux::constraints_system::constraint_manager
    vector_of_constraints,    \* the constraint functions (by name)
    constraint_values,
    operators,
    tolerances,
    penalty,
    return_tuple,
    \* the caller and the call in progress
    pc,                       \* where the caller / perform_gradient_decent is
    eval,                     \* perform_gradient_decent's loop counter
    iterative_count,          \* the inner loop's counter
    test_optimal,             \* the step functions' local: the trial's value
    current_rate,             \* secant_learning_rate_scaling's locals
    new_rate,
    new_val,
    IN_CURRENT_VAL,
    outcome,                  \* how the last call ended
    result,                   \* the pair perform_gradient_decent returned
    \* bookkeeping of the model
    penalty_args,             \* the point get_penalty was last called with
    attempts                  \* candidates the current step has evaluated

engine_vars == <<objective, optimal_point, old_optimal_point, optimal_val,
                 max_eval, tolerance, current_tolerance, lower_bounds,
                 upper_bounds, learning_rate, step_scales, derivatives,
                 derivative_high, first_iteration_settings, constraints_on,
                 use_classic_gd, use_scaling, func_call_count>>
manager_vars == <<vector_of_constraints, constraint_values, operators,
                  tolerances, penalty, return_tuple, penalty_args>>
call_vars == <<pc, eval, iterative_count, test_optimal, current_rate,
               new_rate, new_val, IN_CURRENT_VAL, outcome, result, attempts>>
vars == <<engine_vars, manager_vars, call_vars>>

\* ------------------------------------------------------------------------
\* Optimisation engine (src/gradient_decent.h): helpers
\* ------------------------------------------------------------------------

finite_difference_step == F(1, -3)
initial_learning_rate == F(1, 0)
default_max_eval == 1000
default_tolerance_gd == F(1, -5)
default_current_tolerance == F(2, -3)
iterative_count_max == 1000
iterative_max == 100
back_tracking_decay == F(99, -2)
secant_halving == F(5, -1)
secant_rate_tolerance == F(1, -3)
secant_first_rate == Sub(Zero, F(5, -1))

\* The evaluator's mutable state: the call counter and the manager's fields
\* that get_penalty writes.
EvalState == [count |-> func_call_count, penalty |-> penalty,
              return_tuple |-> return_tuple, args |-> penalty_args]

\* eval_func_at without its increment of the counter.
CountUnchanged(count) == count

\* this->func_call_count++
CountAfter(count) == count + 1

\* The evaluator's state after get_penalty(IN_ARGS).
AfterPenalty(es, IN_ARGS) ==
    [count |-> es.count,
     penalty |-> PenaltyAfter(vector_of_constraints, constraint_values,
                              operators, tolerances, es.penalty, IN_ARGS),
     return_tuple |-> ReturnTupleAfter(vector_of_constraints,
                                       es.return_tuple, IN_ARGS),
     args |-> IN_ARGS]

\* What eval_func_at returns and leaves, given the state get_penalty left:
\* the objective's value, plus the penalty when constraints are on.
Evaluated(es, IN_ARGS, after) ==
    IF constraints_on
    THEN [val |-> Add(ObjectiveAt(objective, IN_ARGS), after.penalty),
          es  |-> [after EXCEPT !.count = CountAfter(es.count)]]
    ELSE [val |-> ObjectiveAt(objective, IN_ARGS),
          es  |-> [es EXCEPT !.count = CountAfter(es.count)]]

\* eval_func_at: the value returned and the evaluator's state after the call.
eval_func_at(es, IN_ARGS) == Evaluated(es, IN_ARGS, AfterPenalty(es, IN_ARGS))

ClampUpper(y, upper) == IF Gt(y, upper) THEN upper ELSE y

\* One coordinate clamped: first onto the lower bound, then onto the upper.
ProjectCoordinate(x, lower, upper) ==
    ClampUpper(IF Lt(x, lower) THEN lower ELSE x, upper)

bounds_projection(IN_POINT) ==
    [i \in Dims |-> ProjectCoordinate(IN_POINT[i], lower_bounds[i],
                                      upper_bounds[i])]

\* TRUE when the initial guess is reported out of bounds.
check_point_bounds(point, lower, upper) ==
    /\ \A i \in Dims : Lt(point[i], lower[i])
    /\ \A i \in Dims : Gt(point[i], upper[i])

create_next_point(IN_POINT, rate) ==
    [i \in Dims |-> Sub(IN_POINT[i],
                        Mul(Mul(derivatives[i], rate), step_scales[i]))]

RECURSIVE SumSquares(_, _, _)
SumSquares(n, a, b) ==
    IF n = NDim THEN Sq(Sub(a[n], b[n]))
    ELSE Add(Sq(Sub(a[n], b[n])), SumSquares(n + 1, a, b))

get_distance_tuple(a, b) == Sqrt(SumSquares(1, a, b))

\* The metric without current_tolerance: the distance alone.
DistanceAlone == get_distance_tuple(optimal_point, old_optimal_point)

get_tolerance == Add(current_tolerance,
                     get_distance_tuple(optimal_point, old_optimal_point))

scale_function(IN_X, IN_FACTOR) == Sqrt(Abs(Div(IN_X, IN_FACTOR)))

\* The point probed for the derivative in dimension i: coordinate i times
\* (1 + finite_difference_step * step_scale), the others times 1.
ProbePoint(IN_TUPLE, i, scales) ==
    [j \in Dims |->
        Mul(IN_TUPLE[j],
            IF j = i THEN Add(F(1, 0), Mul(finite_difference_step, scales[i]))
                     ELSE F(1, 0))]

\* The point probed in the catch block: coordinate i times
\* (1 - finite_difference_step * step_scale), the others times 1.
BackwardProbePoint(IN_TUPLE, i, scales) ==
    [j \in Dims |->
        Mul(IN_TUPLE[j],
            IF j = i THEN Sub(F(1, 0), Mul(finite_difference_step, scales[i]))
                     ELSE F(1, 0))]

\* The try block of find_derivative_at<i> throws: its one expression that
\* can is step_scales.at(i), out of range. The floating-point division by a
\* zero coordinate gives an infinity and throws nothing.
ForwardDifferenceThrows(i) == i \notin Dims

\* 1.0 / (coordinate * finite_difference_step * step_scale)
ProbeFactor(IN_TUPLE, i, scales) ==
    Div(F(1, 0), Mul(Mul(IN_TUPLE[i], finite_difference_step), scales[i]))

\* The orders in which the derivatives of the dimensions can be found:
\* they are the arguments of one std::make_tuple call, which the compiler
\* may evaluate in any order.
EvaluationOrders ==
    {o \in [Dims -> Dims] : \A i, j \in Dims : o[i] = o[j] => i = j}

\* The derivative in dimension n from its probe's value.
DerivativeOf(n, val, IN_TUPLE, scales) ==
    Mul(Sub(val, optimal_val), ProbeFactor(IN_TUPLE, n, scales))

\* The derivatives with that of dimension n, found from its probe ev.
DerivativeAdded(n, before, ev, IN_TUPLE, scales) ==
    [d  |-> [before.d EXCEPT ![n] = DerivativeOf(n, ev.val, IN_TUPLE, scales)],
     es |-> ev.es]

\* find_derivative_at<n>, after the dimensions found before it.
DerivativeNext(n, before, IN_TUPLE, scales) ==
    DerivativeAdded(n, before,
                    eval_func_at(before.es,
                                 IF ForwardDifferenceThrows(n)
                                 THEN BackwardProbePoint(IN_TUPLE, n, scales)
                                 ELSE ProbePoint(IN_TUPLE, n, scales)),
                    IN_TUPLE, scales)

\* calculate_derivatives_at_helper for the first k dimensions of the order:
\* the derivatives found and the evaluator's state after the k probes.
RECURSIVE DerivativesAlong(_, _, _, _, _)
DerivativesAlong(order, k, es, IN_TUPLE, scales) ==
    IF k = 0 THEN [d |-> [i \in Dims |-> Zero], es |-> es]
    ELSE DerivativeNext(order[k],
                        DerivativesAlong(order, k - 1, es, IN_TUPLE, scales),
                        IN_TUPLE, scales)

\* set_high_derivatives_helper<i>: does dimension i set a new maximum?
NewHigh(d, high, i) == Gt(Abs(d[i]), Abs(high[i]))

\* if (step_scale < tolerance) step_scale = tolerance
FloorAtTolerance(s) == IF Lt(s, tolerance) THEN tolerance ELSE s

\* scale: the step scales after the scaling and the floor at the tolerance.
ScaledStepScales(scales, d, high) ==
    [i \in Dims |-> FloorAtTolerance(Mul(scales[i],
                                         scale_function(d[i], high[i])))]

\* ------------------------------------------------------------------------
\* Inputs of the model
\* ------------------------------------------------------------------------

\* The largest evaluation budget the model's callers run with.
MaxBudget == 2

ExampleGuess == <<F(16, -1), F(-12, -1)>>
Guesses == {ExampleGuess, <<F(1, 0), F(1, 0)>>, <<Zero, F(5, -1)>>}
ExampleLower == <<F(-2, 0), F(-2, 0)>>
ExampleUpper == <<F(2, 0), F(2, 0)>>
LowerBoundsSet == {ExampleLower, <<F(2, 0), F(-2, 0)>>, <<F(2, 0), F(2, 0)>>}
UpperBoundsSet == {ExampleUpper, <<F(1, 0), F(2, 0)>>, <<F(-2, 0), F(-2, 0)>>}
ToleranceSet == {F(1, -3), F(5, -3), F(5, -1)}
MaxEvalSet == 0..MaxBudget

ConstraintFuncsSet == {<<"sum", "first">>, <<"sum", "partial">>}
ConstraintValuesSet == {<<Zero, F(1, 0)>>}
OperatorsSet == {<<a, b>> : a \in {"<", "<=", ">", ">=", "=", "!=", "=="},
                            b \in {">=", "="}}
                \cup {<<"<">>, <<"=", "=", "=">>}
TolerancesSet == {<<Zero, Zero>>, <<F(5, -1), F(1, -3)>>,
                  <<F(5, -1), F(5, -1)>>, <<F(5, -1)>>}
PenaltyPoints == {<<x, y>> : x \in {F(-1, 0), F(7, -1), F(1, 0), F(13, -1)},
                             y \in {F(-1, 0), F(-7, -1), F(-13, -1)}}

\* ------------------------------------------------------------------------
\* Construction
\* ------------------------------------------------------------------------

ZeroPoint == [i \in Dims |-> Zero]

\* A gradient_decent object to which no constraints were added.
NoManager ==
    /\ vector_of_constraints = <<>>
    /\ constraint_values = <<>>
    /\ operators = <<>>
    /\ tolerances = <<>>
    /\ penalty = Zero
    /\ return_tuple = <<>>
    /\ penalty_args = ZeroPoint

\* constraint_manager(IN_FUNCS..., IN_VALUES...): the results are value
\* initialised, the operators and tolerances are still empty.
ManagerConstructed(IN_FUNCS, IN_VALUES) ==
    /\ vector_of_constraints = IN_FUNCS
    /\ constraint_values = IN_VALUES
    /\ operators = <<>>
    /\ tolerances = <<>>
    /\ penalty = Zero
    /\ return_tuple = [i \in Cons |-> Zero]
    /\ penalty_args = ZeroPoint

\* gradient_decent(IN_FUNC, IN_GUESS...)
Constructed(IN_FUNC, IN_GUESS) ==
    /\ objective = IN_FUNC
    /\ optimal_point = IN_GUESS
    /\ old_optimal_point = ZeroPoint
    /\ optimal_val = ObjectiveAt(IN_FUNC, IN_GUESS)
    /\ func_call_count = CountAfter(0)
    /\ learning_rate = initial_learning_rate
    /\ step_scales = [i \in Dims |-> F(1, 0)]
    /\ max_eval = default_max_eval
    /\ tolerance = default_tolerance_gd
    /\ current_tolerance = default_current_tolerance
    /\ lower_bounds = ZeroPoint
    /\ upper_bounds = ZeroPoint
    /\ derivatives = ZeroPoint
    /\ derivative_high = ZeroPoint
    /\ first_iteration_settings = TRUE
    /\ constraints_on = FALSE
    /\ use_classic_gd = FALSE
    /\ use_scaling = FALSE

NoCall ==
    /\ pc = "config"
    /\ eval = 0
    /\ iterative_count = 0
    /\ test_optimal = Zero
    /\ current_rate = Zero
    /\ new_rate = Zero
    /\ new_val = Zero
    /\ IN_CURRENT_VAL = Zero
    /\ outcome = "none"
    /\ result = <<>>
    /\ attempts = 0

\* ------------------------------------------------------------------------
\* Configuration
\* ------------------------------------------------------------------------

set_max_eval(IN_MAX_EVAL) ==
    /\ pc = "config"
    /\ max_eval' = IN_MAX_EVAL
    /\ outcome' = "returned"
    /\ UNCHANGED <<objective, optimal_point, old_optimal_point,
                   optimal_val, tolerance, current_tolerance, lower_bounds,
                   upper_bounds, learning_rate, step_scales, derivatives,
                   derivative_high, first_iteration_settings,
                   constraints_on, use_classic_gd, use_scaling,
                   func_call_count, vector_of_constraints,
                   constraint_values, operators, tolerances, penalty,
                   return_tuple, penalty_args, pc, eval, iterative_count,
                   test_optimal, current_rate, new_rate, new_val,
                   IN_CURRENT_VAL, result, attempts>>

set_tolerance(IN_TOLERANCE) ==
    /\ pc = "config"
    /\ tolerance' = IN_TOLERANCE
    /\ outcome' = "returned"
    /\ UNCHANGED <<objective, optimal_point, old_optimal_point,
                   optimal_val, max_eval, current_tolerance, lower_bounds,
                   upper_bounds, learning_rate, step_scales, derivatives,
                   derivative_high, first_iteration_settings,
                   constraints_on, use_classic_gd, use_scaling,
                   func_call_count, vector_of_constraints,
                   constraint_values, operators, tolerances, penalty,
                   return_tuple, penalty_args, pc, eval, iterative_count,
                   test_optimal, current_rate, new_rate, new_val,
                   IN_CURRENT_VAL, result, attempts>>

\* The bounds are stored before the check; the check throws
\* std::runtime_error when it reports the initial guess out of bounds.
add_lower_bounds(IN_LOWER_BOUNDS) ==
    /\ pc = "config"
    /\ lower_bounds' = IN_LOWER_BOUNDS
    /\ outcome' = IF check_point_bounds(optimal_point, IN_LOWER_BOUNDS,
                                        upper_bounds)
                  THEN "out_of_bounds" ELSE "returned"
    /\ UNCHANGED <<objective, optimal_point, old_optimal_point,
                   optimal_val, max_eval, tolerance, current_tolerance,
                   upper_bounds, learning_rate, step_scales, derivatives,
                   derivative_high, first_iteration_settings,
                   constraints_on, use_classic_gd, use_scaling,
                   func_call_count, vector_of_constraints,
                   constraint_values, operators, tolerances, penalty,
                   return_tuple, penalty_args, pc, eval, iterative_count,
                   test_optimal, current_rate, new_rate, new_val,
                   IN_CURRENT_VAL, result, attempts>>

add_upper_bounds(IN_UPPER_BOUNDS) ==
    /\ pc = "config"
    /\ upper_bounds' = IN_UPPER_BOUNDS
    /\ outcome' = IF check_point_bounds(optimal_point, lower_bounds,
                                        IN_UPPER_BOUNDS)
                  THEN "out_of_bounds" ELSE "returned"
    /\ UNCHANGED <<objective, optimal_point, old_optimal_point,
                   optimal_val, max_eval, tolerance, current_tolerance,
                   lower_bounds, learning_rate, step_scales, derivatives,
                   derivative_high, first_iteration_settings,
                   constraints_on, use_classic_gd, use_scaling,
                   func_call_count, vector_of_constraints,
                   constraint_values, operators, tolerances, penalty,
                   return_tuple, penalty_args, pc, eval, iterative_count,
                   test_optimal, current_rate, new_rate, new_val,
                   IN_CURRENT_VAL, result, attempts>>

\* A setter that scales the stored learning rate instead of replacing it.
scale_initial_learning_rate(IN_RATE) ==
    /\ pc = "config"
    /\ learning_rate' = Mul(learning_rate, IN_RATE)
    /\ outcome' = "returned"
    /\ UNCHANGED <<objective, optimal_point, old_optimal_point,
                   optimal_val, max_eval, tolerance, current_tolerance,
                   lower_bounds, upper_bounds, step_scales, derivatives,
                   derivative_high, first_iteration_settings,
                   constraints_on, use_classic_gd, use_scaling,
                   func_call_count, vector_of_constraints,
                   constraint_values, operators, tolerances, penalty,
                   return_tuple, penalty_args, pc, eval, iterative_count,
                   test_optimal, current_rate, new_rate, new_val,
                   IN_CURRENT_VAL, result, attempts>>

set_initial_learning_rate(IN_RATE) ==
    /\ pc = "config"
    /\ learning_rate' = IN_RATE
    /\ outcome' = "returned"
    /\ UNCHANGED <<objective, optimal_point, old_optimal_point,
                   optimal_val, max_eval, tolerance, current_tolerance,
                   lower_bounds, upper_bounds, step_scales, derivatives,
                   derivative_high, first_iteration_settings,
                   constraints_on, use_classic_gd, use_scaling,
                   func_call_count, vector_of_constraints,
                   constraint_values, operators, tolerances, penalty,
                   return_tuple, penalty_args, pc, eval, iterative_count,
                   test_optimal, current_rate, new_rate, new_val,
                   IN_CURRENT_VAL, result, attempts>>

toggle_classic_gradient_algo ==
    /\ pc = "config"
    /\ use_classic_gd' = ~use_classic_gd
    /\ outcome' = "returned"
    /\ UNCHANGED <<objective, optimal_point, old_optimal_point,
                   optimal_val, max_eval, tolerance, current_tolerance,
                   lower_bounds, upper_bounds, learning_rate, step_scales,
                   derivatives, derivative_high, first_iteration_settings,
                   constraints_on, use_scaling, func_call_count,
                   vector_of_constraints, constraint_values, operators,
                   tolerances, penalty, return_tuple, penalty_args, pc,
                   eval, iterative_count, test_optimal, current_rate,
                   new_rate, new_val, IN_CURRENT_VAL, result, attempts>>

toggle_derivative_scaling ==
    /\ pc = "config"
    /\ use_scaling' = ~use_scaling
    /\ outcome' = "returned"
    /\ UNCHANGED <<objective, optimal_point, old_optimal_point,
                   optimal_val, max_eval, tolerance, current_tolerance,
                   lower_bounds, upper_bounds, learning_rate, step_scales,
                   derivatives, derivative_high, first_iteration_settings,
                   constraints_on, use_classic_gd, func_call_count,
                   vector_of_constraints, constraint_values, operators,
                   tolerances, penalty, return_tuple, penalty_args, pc,
                   eval, iterative_count, test_optimal, current_rate,
                   new_rate, new_val, IN_CURRENT_VAL, result, attempts>>

\* add_constraints: a manager is made of the constraints' functions and
\* values, and given their operators and tolerances (one of each per
\* constraint).
add_constraints(funcs, values, ops, tols) ==
    /\ pc = "config"
    /\ constraints_on' = TRUE
    /\ vector_of_constraints' = funcs
    /\ constraint_values' = values
    /\ return_tuple' = [i \in Cons |-> Zero]
    /\ penalty' = Zero
    /\ penalty_args' = ZeroPoint
    /\ operators' = StoredOperators(ops)
    /\ tolerances' = StoredTolerances(tols)
    /\ outcome' = "returned"
    /\ UNCHANGED <<objective, optimal_point, old_optimal_point,
                   optimal_val, max_eval, tolerance, current_tolerance,
                   lower_bounds, upper_bounds, learning_rate, step_scales,
                   derivatives, derivative_high, first_iteration_settings,
                   use_classic_gd, use_scaling, func_call_count, pc, eval,
                   iterative_count, test_optimal, current_rate, new_rate,
                   new_val, IN_CURRENT_VAL, result, attempts>>

\* ------------------------------------------------------------------------
\* The constraint manager called directly
\* ------------------------------------------------------------------------

add_operators(IN_OPERATORS) ==
    /\ pc = "config"
    /\ vector_of_constraints # <<>>
    /\ operators' = StoredOperators(IN_OPERATORS)
    /\ UNCHANGED <<objective, optimal_point, old_optimal_point,
                   optimal_val, max_eval, tolerance, current_tolerance,
                   lower_bounds, upper_bounds, learning_rate, step_scales,
                   derivatives, derivative_high, first_iteration_settings,
                   constraints_on, use_classic_gd, use_scaling,
                   func_call_count, vector_of_constraints,
                   constraint_values, tolerances, penalty, return_tuple,
                   penalty_args, pc, eval, iterative_count, test_optimal,
                   current_rate, new_rate, new_val, IN_CURRENT_VAL,
                   outcome, result, attempts>>

add_tolerances(IN_TOLERANCES) ==
    /\ pc = "config"
    /\ vector_of_constraints # <<>>
    /\ tolerances' = StoredTolerances(IN_TOLERANCES)
    /\ UNCHANGED <<objective, optimal_point, old_optimal_point,
                   optimal_val, max_eval, tolerance, current_tolerance,
                   lower_bounds, upper_bounds, learning_rate, step_scales,
                   derivatives, derivative_high, first_iteration_settings,
                   constraints_on, use_classic_gd, use_scaling,
                   func_call_count, vector_of_constraints,
                   constraint_values, operators, penalty, return_tuple,
                   penalty_args, pc, eval, iterative_count, test_optimal,
                   current_rate, new_rate, new_val, IN_CURRENT_VAL,
                   outcome, result, attempts>>

\* get_penalty reads operators[i] and tolerances[i] for every constraint:
\* it is called once both have been given.
get_penalty(IN_ARGS_TUPLE) ==
    /\ pc = "config"
    /\ vector_of_constraints # <<>>
    /\ Len(operators) = constraint_count
    /\ Len(tolerances) = constraint_count
    /\ penalty' = PenaltyAfter(vector_of_constraints, constraint_values,
                               operators, tolerances, penalty, IN_ARGS_TUPLE)
    /\ return_tuple' = ReturnTupleAfter(vector_of_constraints, return_tuple,
                                        IN_ARGS_TUPLE)
    /\ penalty_args' = IN_ARGS_TUPLE
    /\ UNCHANGED <<objective, optimal_point, old_optimal_point,
                   optimal_val, max_eval, tolerance, current_tolerance,
                   lower_bounds, upper_bounds, learning_rate, step_scales,
                   derivatives, derivative_high, first_iteration_settings,
                   constraints_on, use_classic_gd, use_scaling,
                   func_call_count, vector_of_constraints,
                   constraint_values, operators, tolerances, pc, eval,
                   iterative_count, test_optimal, current_rate, new_rate,
                   new_val, IN_CURRENT_VAL, outcome, result, attempts>>

\* ------------------------------------------------------------------------
\* perform_gradient_decent
\* ------------------------------------------------------------------------

\* The argument of the step functions: a copy of the point the iteration
\* started from, which old_optimal_point holds throughout the step.
IN_POINT == old_optimal_point

\* The call: std::size_t eval = 0, then the do-while loop is entered.
perform_gradient_decent ==
    /\ pc = "config"
    /\ pc' = "iterate"
    /\ eval' = 0
    /\ outcome' = "running"
    /\ UNCHANGED <<objective, optimal_point, old_optimal_point,
                   optimal_val, max_eval, tolerance, current_tolerance,
                   lower_bounds, upper_bounds, learning_rate, step_scales,
                   derivatives, derivative_high, first_iteration_settings,
                   constraints_on, use_classic_gd, use_scaling,
                   func_call_count, vector_of_constraints,
                   constraint_values, operators, tolerances, penalty,
                   return_tuple, penalty_args, iterative_count,
                   test_optimal, current_rate, new_rate, new_val,
                   IN_CURRENT_VAL, result, attempts>>

\* set_high_derivatives without its reset of the learning rate.
LearningRateKept(d, high, rate) == rate

\* set_high_derivatives: the learning rate is reset when some dimension
\* sets a new maximum.
LearningRateAfterHigh(d, high, rate) ==
    IF \E i \in Dims : NewHigh(d, high, i) THEN F(1, 0) ELSE rate

\* The step scales the iteration's step is taken with.
StepScalesFor(d, high) ==
    LET ones == [i \in Dims |-> F(1, 0)]
    IN IF use_scaling /\ ~first_iteration_settings
       THEN ScaledStepScales(ones, d, high) ELSE ones

\* set_high_derivatives: the maxima after the derivatives d were found.
HighAfter(d, high) ==
    [i \in Dims |-> IF NewHigh(d, high, i) THEN d[i] ELSE high[i]]

\* The evaluator's state is written back to the fields it stands for.
EvalStateBecomes(es) ==
    /\ func_call_count' = es.count
    /\ penalty' = es.penalty
    /\ return_tuple' = es.return_tuple
    /\ penalty_args' = es.args

\* What the head of the loop body leaves, dv being what
\* calculate_derivatives_at found.
DerivativesFound(dv) ==
    /\ old_optimal_point' = optimal_point
    /\ derivatives' = dv.d
    /\ derivative_high' = HighAfter(dv.d, derivative_high)
    /\ learning_rate' =
          LearningRateAfterHigh(dv.d, derivative_high, learning_rate)
    /\ step_scales' = StepScalesFor(dv.d, HighAfter(dv.d, derivative_high))
    /\ EvalStateBecomes(dv.es)

\* The head of the loop body: the snapshot of the point, the reset of the
\* step scales, calculate_derivatives_at; the step function is entered.
BeginIteration ==
    /\ pc = "iterate"
    /\ \E order \in EvaluationOrders :
          DerivativesFound(DerivativesAlong(order, NDim, EvalState,
                                            optimal_point,
                                            [i \in Dims |-> F(1, 0)]))
    /\ pc' = "step"
    /\ iterative_count' = 0
    /\ attempts' = 0
    /\ UNCHANGED <<objective, optimal_point, optimal_val, max_eval,
                   tolerance, current_tolerance, lower_bounds,
                   upper_bounds, first_iteration_settings, constraints_on,
                   use_classic_gd, use_scaling, vector_of_constraints,
                   constraint_values, operators, tolerances, eval,
                   test_optimal, current_rate, new_rate, new_val,
                   IN_CURRENT_VAL, outcome, result>>

\* while (iterative_count++ < iterative_count_max)
BackTrackingContinues(count) == count < iterative_count_max

\* if (iterative_count >= iterative_count_max) throw
BackTrackingThrows(count) == count >= iterative_count_max

\* if (test_optimal > this->optimal_val): the trial is rejected.
Worse(trial, current) == Gt(trial, current)

\* The candidate of a step: the point moved against the derivatives by the
\* rate, projected onto the bounds.
Candidate(rate) == bounds_projection(create_next_point(IN_POINT, rate))

\* A trial accepted without current_tolerance being recorded.
AcceptedUnrecorded(ev) ==
    /\ optimal_val' = ev.val
    /\ UNCHANGED current_tolerance

\* The trial ev of the candidate cand is accepted: the candidate is
\* already the current point, its value becomes the current value.
Accepted(ev) ==
    /\ current_tolerance' = Abs(Sub(optimal_val, ev.val))
    /\ optimal_val' = ev.val

\* The back-tracking loop is left with the counter at count.
BackTrackingLeft(count) ==
    /\ pc' = IF BackTrackingThrows(count) THEN "done" ELSE "looptest"
    /\ outcome' = IF BackTrackingThrows(count) THEN "back_tracking_failed"
                  ELSE outcome

\* The loop body with the trial ev of the candidate cand.
BackTrackingTried(cand, ev) ==
    /\ optimal_point' = cand
    /\ test_optimal' = ev.val
    /\ EvalStateBecomes(ev.es)
    /\ IF Worse(ev.val, optimal_val)
       THEN /\ learning_rate' = Mul(learning_rate, back_tracking_decay)
            /\ iterative_count' = iterative_count + 1
            /\ UNCHANGED <<current_tolerance, optimal_val>>
            /\ IF BackTrackingContinues(iterative_count)
               THEN pc' = "step" /\ UNCHANGED outcome
               ELSE BackTrackingLeft(iterative_count + 1)
       ELSE /\ Accepted(ev)
            /\ UNCHANGED <<learning_rate, iterative_count>>
            /\ BackTrackingLeft(iterative_count)

\* One pass of step_forward_with_back_tracking's loop body, with the loop
\* test and, when the loop is left, the check that follows it.
BackTrackingAttempt ==
    /\ pc = "step"
    /\ use_classic_gd
    /\ BackTrackingTried(Candidate(learning_rate),
                         eval_func_at(EvalState, Candidate(learning_rate)))
    /\ attempts' = attempts + 1
    /\ UNCHANGED <<objective, old_optimal_point, max_eval, tolerance,
                   lower_bounds, upper_bounds, step_scales, derivatives,
                   derivative_high, first_iteration_settings,
                   constraints_on, use_classic_gd, use_scaling,
                   vector_of_constraints, constraint_values, operators,
                   tolerances, eval, current_rate, new_rate, new_val,
                   IN_CURRENT_VAL, result>>

\* find_new_val's argument: the current point moved by IN_RATE along the
\* scaled derivatives, without bounds projection.
RatePoint(IN_RATE) ==
    [i \in Dims |-> Sub(optimal_point[i],
                        Mul(Mul(IN_RATE, step_scales[i]), derivatives[i]))]

\* find_new_rate
find_new_rate(rate_new, rate_current, val_new, val_current) ==
    Sub(rate_new,
        Div(Mul(val_new, Sub(rate_new, rate_current)),
            Sub(val_new, val_current)))

\* The first trial ev of the candidate cand.
SecantTried(cand, ev) ==
    /\ optimal_point' = cand
    /\ test_optimal' = ev.val
    /\ EvalStateBecomes(ev.es)
    /\ IF Worse(ev.val, optimal_val)
       THEN /\ pc' = "secant"
            /\ IN_CURRENT_VAL' = Sub(ev.val, optimal_val)
            /\ current_rate' = Zero
            /\ new_rate' = secant_first_rate
            /\ UNCHANGED <<current_tolerance, optimal_val>>
       ELSE /\ Accepted(ev)
            /\ pc' = "looptest"
            /\ UNCHANGED <<IN_CURRENT_VAL, current_rate, new_rate>>

\* The first trial of step_forward_with_secant_method: accepted when it is
\* not worse, else secant_learning_rate_scaling is entered with
\* IN_CURRENT_VAL = test_optimal - optimal_val, IN_REQUIRED_VAL = optimal_val.
SecantFirstTrial ==
    /\ pc = "step"
    /\ ~use_classic_gd
    /\ SecantTried(Candidate(learning_rate),
                   eval_func_at(EvalState, Candidate(learning_rate)))
    /\ iterative_count' = 0
    /\ attempts' = attempts + 1
    /\ UNCHANGED <<objective, old_optimal_point, max_eval, tolerance,
                   lower_bounds, upper_bounds, learning_rate, step_scales,
                   derivatives, derivative_high, first_iteration_settings,
                   constraints_on, use_classic_gd, use_scaling,
                   vector_of_constraints, constraint_values, operators,
                   tolerances, eval, new_val, outcome, result>>

\* The learning rate update without its halving.
SecantLearningRateUnhalved(rate, found) == Add(rate, found)

\* learning_rate += <the rate found>; learning_rate *= 0.5
SecantLearningRate(rate, found) == Mul(Add(rate, found), secant_halving)

\* while (std::abs(new_rate - current_rate) > 0.001 && ...)
SecantFar(rate_new, rate_current) ==
    Gt(Abs(Sub(rate_new, rate_current)), secant_rate_tolerance)

\* The search's loop test without its cap on the passes.
SecantUncapped(count) == TRUE

\* ... && iterative_count++ < iterative_max)
SecantContinues(count) == count < iterative_max

\* The retried step: the candidate cand of the new rate is the current
\* point and its value ev.val the current value, whatever it is.
SecantRetried(rate, cand, ev) ==
    /\ learning_rate' = rate
    /\ optimal_point' = cand
    /\ optimal_val' = ev.val
    /\ EvalStateBecomes(ev.es)
    /\ attempts' = attempts + 1
    /\ pc' = "looptest"
    /\ UNCHANGED test_optimal

\* The search has left the rate found: the learning rate is updated and
\* the step retried from IN_POINT.
SecantLeft(es, rate) ==
    SecantRetried(rate, Candidate(rate), eval_func_at(es, Candidate(rate)))

\* The loop body with its two evaluations ev1 and ev2 and the rate found.
SecantSearched(ev1, ev2, found) ==
    /\ new_val' = Sub(ev1.val, optimal_val)
    /\ current_rate' = new_rate
    /\ new_rate' = found
    /\ IN_CURRENT_VAL' = Sub(ev2.val, optimal_val)
    /\ iterative_count' = IF SecantFar(found, new_rate)
                          THEN iterative_count + 1 ELSE iterative_count
    /\ IF SecantFar(found, new_rate) /\ SecantContinues(iterative_count)
       THEN /\ EvalStateBecomes(ev2.es)
            /\ pc' = "secant"
            /\ UNCHANGED <<learning_rate, optimal_point, optimal_val,
                           test_optimal, attempts>>
       ELSE SecantLeft(ev2.es, SecantLearningRate(learning_rate, found))

\* The second evaluation is made at the rate the first was made at.
SecantEvaluated(ev1) ==
    SecantSearched(ev1, eval_func_at(ev1.es, RatePoint(new_rate)),
                   find_new_rate(new_rate, current_rate,
                                 Sub(ev1.val, optimal_val), IN_CURRENT_VAL))

\* One pass of secant_learning_rate_scaling's loop body with the loop test;
\* when the loop is left, the rest of step_forward_with_secant_method: the
\* learning rate update and the retried step, accepted as it is.
SecantSearchIteration ==
    /\ pc = "secant"
    /\ SecantEvaluated(eval_func_at(EvalState, RatePoint(new_rate)))
    /\ UNCHANGED <<objective, old_optimal_point, max_eval, tolerance,
                   current_tolerance, lower_bounds, upper_bounds,
                   step_scales, derivatives, derivative_high,
                   first_iteration_settings, constraints_on,
                   use_classic_gd, use_scaling, vector_of_constraints,
                   constraint_values, operators, tolerances, eval, outcome,
                   result>>

\* The loop test with the counter compared by <= instead of <.
LoopContinuesInclusive(count) ==
    count <= max_eval /\ Gt(get_tolerance, tolerance)

\* while (eval++ < max_eval && get_tolerance() > tolerance)
LoopContinues(count) ==
    count < max_eval /\ Gt(get_tolerance, tolerance)

\* The end of the loop body (first_iteration_settings = false) and the
\* loop test; eval is incremented whatever the test finds.
LoopTest ==
    /\ pc = "looptest"
    /\ first_iteration_settings' = FALSE
    /\ eval' = eval + 1
    /\ pc' = IF LoopContinues(eval) THEN "iterate" ELSE "postloop"
    /\ UNCHANGED <<objective, optimal_point, old_optimal_point,
                   optimal_val, max_eval, tolerance, current_tolerance,
                   lower_bounds, upper_bounds, learning_rate, step_scales,
                   derivatives, derivative_high, constraints_on,
                   use_classic_gd, use_scaling, func_call_count,
                   vector_of_constraints, constraint_values, operators,
                   tolerances, penalty, return_tuple, penalty_args,
                   iterative_count, test_optimal, current_rate, new_rate,
                   new_val, IN_CURRENT_VAL, outcome, result, attempts>>

\* The failure check made on the metric the loop tests.
ConvergenceFailsOnMetric(count) ==
    count >= max_eval /\ Gt(get_tolerance, tolerance)

\* if (eval >= max_eval && current_tolerance > tolerance) throw
ConvergenceFails(count) ==
    count >= max_eval /\ Gt(current_tolerance, tolerance)

\* After the loop: the failure check, else the return of the pair.
Finish ==
    /\ pc = "postloop"
    /\ pc' = "done"
    /\ outcome' = IF ConvergenceFails(eval) THEN "convergence_failed"
                  ELSE "converged"
    /\ result' = IF ConvergenceFails(eval) THEN result
                 ELSE <<optimal_val, optimal_point>>
    /\ UNCHANGED <<objective, optimal_point, old_optimal_point,
                   optimal_val, max_eval, tolerance, current_tolerance,
                   lower_bounds, upper_bounds, learning_rate, step_scales,
                   derivatives, derivative_high, first_iteration_settings,
                   constraints_on, use_classic_gd, use_scaling,
                   func_call_count, vector_of_constraints,
                   constraint_values, operators, tolerances, penalty,
                   return_tuple, penalty_args, eval, iterative_count,
                   test_optimal, current_rate, new_rate, new_val,
                   IN_CURRENT_VAL, attempts>>

\* The model's callers start a run once the budget is at most MaxBudget.
Run == max_eval <= MaxBudget /\ perform_gradient_decent

\* ------------------------------------------------------------------------
\* Specifications
\* ------------------------------------------------------------------------

\* The optimiser configured as in src/example.cpp (bounds, tolerance) and
\* run, under either algorithm.
Init ==
    /\ \E f \in {"bowl", "saddle"}, g \in {ExampleGuess, <<Zero, F(5, -1)>>} :
          Constructed(f, g)
    /\ NoManager
    /\ NoCall

Next ==
    \/ \E m \in MaxEvalSet : set_max_eval(m)
    \/ \E t \in ToleranceSet : set_tolerance(t)
    \/ add_lower_bounds(ExampleLower)
    \/ add_upper_bounds(ExampleUpper)
    \/ toggle_classic_gradient_algo
    \/ Run
    \/ BeginIteration
    \/ BackTrackingAttempt
    \/ SecantFirstTrial
    \/ SecantSearchIteration
    \/ LoopTest
    \/ Finish

Spec == Init /\ [][Next]_vars

\* The configuration calls alone, on every initial guess and bounds pair.
InitConfig ==
    /\ \E g \in Guesses : Constructed("bowl", g)
    /\ NoManager
    /\ NoCall

NextConfig ==
    \/ \E l \in LowerBoundsSet : add_lower_bounds(l)
    \/ \E u \in UpperBoundsSet : add_upper_bounds(u)
    \/ \E m \in MaxEvalSet : set_max_eval(m)
    \/ \E t \in ToleranceSet : set_tolerance(t)
    \/ set_initial_learning_rate(F(5, -1))
    \/ toggle_classic_gradient_algo
    \/ toggle_derivative_scaling

SpecConfig == InitConfig /\ [][NextConfig]_vars

\* The classic algorithm on the plateau objectives, whose first step needs
\* about a thousand decays of the learning rate.
InitBackTracking ==
    /\ \E f \in {"well", "basin", "spike"} : Constructed(f, <<F(1, 0), F(1, 0)>>)
    /\ NoManager
    /\ NoCall

RunClassic == use_classic_gd /\ Run

NextBackTracking ==
    \/ set_max_eval(0)
    \/ add_lower_bounds(ExampleLower)
    \/ add_upper_bounds(ExampleUpper)
    \/ toggle_classic_gradient_algo
    \/ RunClassic
    \/ BeginIteration
    \/ BackTrackingAttempt
    \/ LoopTest
    \/ Finish

SpecBackTracking == InitBackTracking /\ [][NextBackTracking]_vars

\* A constraint manager of two constraints, called directly.
InitPenalty ==
    /\ Constructed("bowl", ExampleGuess)
    /\ \E funcs \in ConstraintFuncsSet, values \in ConstraintValuesSet :
          ManagerConstructed(funcs, values)
    /\ NoCall

NextPenalty ==
    \/ \E ops \in OperatorsSet : add_operators(ops)
    \/ \E tols \in TolerancesSet : add_tolerances(tols)
    \/ \E p \in PenaltyPoints : get_penalty(p)

SpecPenalty == InitPenalty /\ [][NextPenalty]_vars

\* The optimiser run with or without constraints added, under either
\* algorithm.
InitConstrained ==
    /\ \E f \in {"bowl", "saddle"} : Constructed(f, ExampleGuess)
    /\ NoManager
    /\ NoCall

\* The classic algorithm is run with constraints added, both bounds given
\* and a budget of one iteration.
RunConstrained ==
    /\ use_classic_gd =>
          /\ constraints_on
          /\ max_eval = 0
          /\ lower_bounds = ExampleLower
          /\ upper_bounds = ExampleUpper
    /\ Run

NextConstrained ==
    \/ \E funcs \in ConstraintFuncsSet, values \in ConstraintValuesSet,
          ops \in {<<"<=", "<=">>, <<">=", "=">>},
          tols \in {<<F(5, -1), F(1, -3)>>} :
          add_constraints(funcs, values, ops, tols)
    \/ \E m \in MaxEvalSet : set_max_eval(m)
    \/ set_tolerance(F(5, -3))
    \/ add_lower_bounds(ExampleLower)
    \/ add_upper_bounds(ExampleUpper)
    \/ toggle_classic_gradient_algo
    \/ RunConstrained
    \/ BeginIteration
    \/ BackTrackingAttempt
    \/ SecantFirstTrial
    \/ SecantSearchIteration
    \/ LoopTest
    \/ Finish

SpecConstrained == InitConstrained /\ [][NextConstrained]_vars

\* The optimiser run with derivative scaling switched on or off, with a
\* small budget or the default one.
InitScaling ==
    /\ \E f \in {"bowl", "trough"} : Constructed(f, ExampleGuess)
    /\ NoManager
    /\ NoCall

\* A run with the default budget, both bounds of src/example.cpp given.
RunConvex ==
    /\ max_eval = default_max_eval
    /\ lower_bounds = ExampleLower
    /\ upper_bounds = ExampleUpper
    /\ perform_gradient_decent

NextScaling ==
    \/ toggle_derivative_scaling
    \/ set_initial_learning_rate(F(5, -1))
    \/ toggle_classic_gradient_algo
    \/ \E t \in ToleranceSet : set_tolerance(t)
    \/ \E m \in MaxEvalSet : set_max_eval(m)
    \/ add_lower_bounds(ExampleLower)
    \/ add_upper_bounds(ExampleUpper)
    \/ Run
    \/ RunConvex
    \/ BeginIteration
    \/ BackTrackingAttempt
    \/ SecantFirstTrial
    \/ SecantSearchIteration
    \/ LoopTest
    \/ Finish

SpecScaling == InitScaling /\ [][NextScaling]_vars

\* The steps of a call of perform_gradient_decent.
RunStep ==
    \/ BeginIteration
    \/ BackTrackingAttempt
    \/ SecantFirstTrial
    \/ SecantSearchIteration
    \/ LoopTest
    \/ Finish

InitTerminating ==
    /\ \E f \in {"bowl", "saddle"}, g \in {ExampleGuess, <<Zero, F(5, -1)>>} :
          Constructed(f, g)
    /\ NoManager
    /\ NoCall

NextTerminating ==
    \/ \E m \in MaxEvalSet : set_max_eval(m)
    \/ set_initial_learning_rate(F(5, -1))
    \/ add_lower_bounds(ExampleLower)
    \/ add_upper_bounds(ExampleUpper)
    \/ toggle_classic_gradient_algo
    \/ Run
    \/ RunStep

\* The position of a call: where it is in perform_gradient_decent, and its
\* loop counters.
position == <<pc, eval, iterative_count, attempts>>

\* A call that has begun and not ended moves on: every step of RunStep moves
\* the position this way (a new place in the code, or a counter incremented
\* or reset).
Advance ==
    /\ pc \in {"iterate", "step", "secant", "looptest", "postloop"}
    /\ pc' \in {"iterate", "step", "secant", "looptest", "postloop", "done"}
    /\ eval' \in {eval, eval + 1}
    /\ iterative_count' \in {0, iterative_count, iterative_count + 1}
    /\ attempts' \in {0, attempts, attempts + 1}

\* perform_gradient_decent runs to its end within the call, in one thread:
\* once begun, it keeps moving until it has ended.
SpecTerminating ==
    InitTerminating /\ [][NextTerminating]_vars /\ WF_position(Advance)

\* Spec with its calls running to their end once begun.
SpecRunning == Init /\ [][Next]_vars /\ WF_position(Advance)

\* ------------------------------------------------------------------------
\* Properties
\* ------------------------------------------------------------------------

\* The stored bounds are ordered in every dimension.
BoundsOrdered == \A i \in Dims : Le(lower_bounds[i], upper_bounds[i])

\* Every coordinate of the current point lies within its stored bounds.
PointWithinBounds ==
    \A i \in Dims : /\ Le(lower_bounds[i], optimal_point[i])
                    /\ Le(optimal_point[i], upper_bounds[i])

\* C1: once a step has made a candidate the current point (a back-tracking
\* candidate, accepted or rejected, a first secant trial or a secant retry),
\* every coordinate of the current point lies within the stored bounds,
\* provided the bounds are ordered.
C1_StepPointWithinBounds ==
    (attempts > 0 /\ BoundsOrdered) => PointWithinBounds

\* C2: add_lower_bounds ends with the "out of bounds" error whenever some
\* coordinate of the initial guess is below its lower bound, and
\* add_upper_bounds whenever some coordinate is above its upper bound.
C2_GuessOutsideBoundsRejected ==
    [][/\ \A l \in LowerBoundsSet :
            (add_lower_bounds(l) /\ \E i \in Dims : Lt(optimal_point[i], l[i]))
               => outcome' = "out_of_bounds"
       /\ \A u \in UpperBoundsSet :
            (add_upper_bounds(u) /\ \E i \in Dims : Gt(optimal_point[i], u[i]))
               => outcome' = "out_of_bounds"]_vars

\* The call of perform_gradient_decent has left its loop and ended, by the
\* convergence failure or by returning.
LoopExited == pc = "done" /\ outcome \in {"converged", "convergence_failed"}

\* C3: when the loop has been left, the call ends with the convergence
\* failure exactly if the loop counter has reached max_eval and
\* current_tolerance exceeds tolerance; otherwise it returns the pair of
\* the stored value and the stored point.
C3_FailureIffBudgetAndLiveTolerance ==
    LoopExited =>
        /\ outcome = "convergence_failed"
              <=> (eval >= max_eval /\ Gt(current_tolerance, tolerance))
        /\ outcome = "converged" => result = <<optimal_val, optimal_point>>
        /\ outcome = "convergence_failed" => result = <<>>

\* A call that ended with the convergence failure.
C3_Witness ==
    /\ pc = "done"
    /\ outcome = "convergence_failed"
    /\ eval >= max_eval
    /\ Gt(current_tolerance, tolerance)

\* C4: every return of perform_gradient_decent has the metric the loop
\* tests (current_tolerance plus the distance between the current and the
\* previous point) at most tolerance.
C4_ReturnMeetsMetric ==
    (pc = "done" /\ outcome = "converged" /\ ~IsNaN(get_tolerance))
        => Le(get_tolerance, tolerance)

\* C5: a back-tracking step all of whose candidates were worse than the
\* current value ends with the back-tracking failure after at most
\* iterative_count_max candidates.
C5_FailsWithinAttemptCap ==
    (outcome = "back_tracking_failed" /\ Gt(test_optimal, optimal_val))
        => attempts <= iterative_count_max

\* C6: a back-tracking step ends with the back-tracking failure only if
\* its last candidate was worse than the current value; a candidate that
\* is not worse is accepted, its value becoming the current value, and the
\* step returns.
C6_FailsOnlyWithoutAcceptance ==
    outcome = "back_tracking_failed" => Gt(test_optimal, optimal_val)

\* A call of get_penalty, at any point.
GetPenaltyStep ==
    \E p \in PenaltyPoints : penalty_args' = p /\ get_penalty(p)

\* obtained - required of constraint i at the point p.
DiffAt(i, p) ==
    Sub(ConstraintValueAt(vector_of_constraints[i], p), constraint_values[i])

\* A difference obtained - required that satisfies the relation of the
\* operator within the tolerance.
WithinTolerance(op, diff, tol) ==
    \/ op \in {"<", "<="} /\ Le(diff, tol)
    \/ op \in {">", ">="} /\ Ge(diff, Neg(tol))
    \/ op = "=" /\ Le(Abs(diff), tol)
    \/ op = "!=" /\ Ge(Abs(diff), tol)

\* A difference that breaks the relation by more than the tolerance.
BeyondTolerance(op, diff, tol) ==
    \/ op \in {"<", "<="} /\ Gt(diff, tol)
    \/ op \in {">", ">="} /\ Lt(diff, Neg(tol))
    \/ op = "=" /\ Gt(Abs(diff), tol)
    \/ op = "!=" /\ Lt(Abs(diff), tol)

\* Constraint i returns a value at p and the value satisfies the
\* constraint's relation within its tolerance.
SatisfiedAt(i, p) ==
    /\ ~ConstraintThrowsAt(vector_of_constraints[i], p)
    /\ WithinTolerance(operators[i], DiffAt(i, p), tolerances[i])

\* Constraint i returns a value at p and the value breaks the constraint's
\* relation by more than its tolerance.
ViolatedAt(i, p) ==
    /\ ~ConstraintThrowsAt(vector_of_constraints[i], p)
    /\ BeyondTolerance(operators[i], DiffAt(i, p), tolerances[i])

\* Every constraint function returns at p.
AllReturnAt(p) ==
    \A i \in Cons : ~ConstraintThrowsAt(vector_of_constraints[i], p)

\* C7 as stated: get_penalty leaves a penalty of zero at a point that
\* satisfies every constraint within its tolerance, and a strictly positive
\* penalty at a point that violates some constraint beyond its tolerance.
C7_PenaltyZeroOrPositive ==
    [][GetPenaltyStep =>
          /\ (\A i \in Cons : SatisfiedAt(i, penalty_args')) => penalty' = Zero
          /\ (\E i \in Cons : ViolatedAt(i, penalty_args'))
                => Gt(penalty', Zero)]_vars

\* C7 amended: the same where every constraint function returns at the
\* point; a violation of one constraint leaves no penalty when another
\* constraint function throws.
C7_PenaltyZeroOrPositiveWhenAllReturn ==
    [][GetPenaltyStep =>
          /\ (\A i \in Cons : SatisfiedAt(i, penalty_args')) => penalty' = Zero
          /\ (AllReturnAt(penalty_args')
                 /\ \E i \in Cons : ViolatedAt(i, penalty_args'))
                => Gt(penalty', Zero)
          /\ (~AllReturnAt(penalty_args')) => penalty' = Zero]_vars

\* get_penalty has found a positive penalty at a point where one constraint
\* is violated and the other satisfied.
C7_Witness ==
    /\ penalty_args \in PenaltyPoints
    /\ Len(operators) = constraint_count
    /\ Len(tolerances) = constraint_count
    /\ AllReturnAt(penalty_args)
    /\ ViolatedAt(1, penalty_args)
    /\ SatisfiedAt(2, penalty_args)
    /\ Gt(penalty, Zero)

\* The violation of a difference obtained - required, as the operator
\* table gives it.
TableViolation(op, diff, tol) ==
    IF \/ op = "<" /\ Ge(diff, Zero) /\ Gt(Abs(diff), tol)
       \/ op = "<=" /\ Gt(diff, Zero) /\ Gt(Abs(diff), tol)
       \/ op = ">" /\ Le(diff, Zero) /\ Gt(Abs(diff), tol)
       \/ op = ">=" /\ Lt(diff, Zero) /\ Gt(Abs(diff), tol)
       \/ op = "=" /\ Gt(Abs(diff), tol)
    THEN Abs(diff)
    ELSE IF op = "!=" /\ Lt(Abs(diff), tol) THEN MaxFloat
    ELSE Zero

\* The violation of constraint i at the point p.
TableViolationAt(i, p) ==
    TableViolation(operators[i], DiffAt(i, p), tolerances[i])

\* C8: where every constraint function returns, get_penalty leaves 1e9
\* times the sum of the constraints' violations by the operator table,
\* whatever the penalty was before the call.
C8_PenaltyIsScaledSumOfViolations ==
    [][(GetPenaltyStep /\ AllReturnAt(penalty_args')) =>
          penalty' = Mul(F(1, 9), Add(TableViolationAt(1, penalty_args'),
                                      TableViolationAt(2, penalty_args')))]_vars

\* get_penalty has been called with a positive penalty stored by an earlier
\* call and has left zero.
C8_Witness ==
    /\ penalty_args \in PenaltyPoints
    /\ Len(operators) = constraint_count
    /\ Len(tolerances) = constraint_count
    /\ AllReturnAt(penalty_args)
    /\ penalty = Zero
    /\ \E i \in Cons : Gt(return_tuple[i], constraint_values[i])
    /\ operators[1] = "=="

\* C9: when a constraint function throws at the point the step has made
\* current, the penalty of that evaluation is zero, the value stored for
\* the point is the objective's own value, and the run goes on.
C9_ThrowingConstraintLeavesRawObjective ==
    (constraints_on /\ pc = "looptest" /\ ~AllReturnAt(optimal_point))
        => /\ penalty = Zero
           /\ penalty_args = optimal_point
           /\ optimal_val = ObjectiveAt(objective, optimal_point)
           /\ outcome = "running"

\* A step has ended at a point where the first constraint is violated and
\* the second throws.
C9_Witness ==
    /\ constraints_on
    /\ pc = "looptest"
    /\ ~ConstraintThrowsAt(vector_of_constraints[1], optimal_point)
    /\ ViolatedAt(1, optimal_point)
    /\ ConstraintThrowsAt(vector_of_constraints[2], optimal_point)
    /\ penalty = Zero
    /\ optimal_val = ObjectiveAt(objective, optimal_point)

\* C10: add_operators and add_tolerances always leave one entry per
\* constraint: the vector given when it has that length, else "<=" for
\* every constraint, respectively 0.001 for every constraint.
C10_WrongLengthVectorsDefaulted ==
    [][/\ \A ops \in OperatorsSet :
            add_operators(ops) =>
               /\ Len(operators') = constraint_count
               /\ Len(ops) = constraint_count => operators' = ops
               /\ Len(ops) # constraint_count
                     => \A i \in Cons : operators'[i] = "<="
       /\ \A tols \in TolerancesSet :
            add_tolerances(tols) =>
               /\ Len(tolerances') = constraint_count
               /\ Len(tols) = constraint_count => tolerances' = tols
               /\ Len(tols) # constraint_count
                     => \A i \in Cons : tolerances'[i] = F(1, -3)]_vars

\* Both vectors hold the defaults, which only a vector of the wrong length
\* leaves.
C10_Witness ==
    /\ operators = <<"<=", "<=">>
    /\ tolerances = <<F(1, -3), F(1, -3)>>
    /\ <<"<=", "<=">> \notin OperatorsSet
    /\ <<F(1, -3), F(1, -3)>> \notin TolerancesSet


\* The value eval_func_at is specified to return at a point whose penalty
\* is pen: the objective's own value, plus the penalty when constraints are
\* on.
SpecifiedValue(p, pen) ==
    IF constraints_on THEN Add(ObjectiveAt(objective, p), pen)
    ELSE ObjectiveAt(objective, p)

\* C11: the counter is 1 after construction, when the stored value is the
\* objective's own value at the guess; finding the derivatives adds one per
\* dimension (one probe each), a trial step adds one, a pass of the secant
\* search adds two (its two probes) and one more when the retried step
\* follows, and nothing else changes the counter; the value of a trial step
\* and of a retried step is the objective at the candidate, plus the
\* penalty of the candidate exactly when constraints are on.
C11_EvaluationsCounted ==
    [][/\ pc = "config" =>
            /\ func_call_count = 1
            /\ optimal_val = ObjectiveAt(objective, optimal_point)
       /\ pc = "iterate" => func_call_count' = func_call_count + NDim
       /\ pc = "step" =>
            /\ func_call_count' = func_call_count + 1
            /\ test_optimal' = SpecifiedValue(optimal_point', penalty')
       /\ (pc = "secant" /\ pc' = "secant")
            => func_call_count' = func_call_count + 2
       /\ (pc = "secant" /\ pc' # "secant") =>
            /\ func_call_count' = func_call_count + 3
            /\ optimal_val' = SpecifiedValue(optimal_point', penalty')
       /\ pc \notin {"iterate", "step", "secant"}
            => func_call_count' = func_call_count]_vars

\* A run with constraints on has made a secant search and its retried step
\* at a point with a penalty, and a run without constraints a trial step.
C11_Witness ==
    /\ constraints_on
    /\ pc = "looptest"
    /\ iterative_count > 0
    /\ Gt(penalty, Zero)
    /\ func_call_count >= 1 + NDim + 1 + 2 + 1

\* C12: an iteration of the loop is begun after the loop test only while
\* the number of objective evaluations made is below max_eval.
C12_IteratesWithinEvaluationBudget ==
    (pc = "iterate" /\ eval > 0) => func_call_count < max_eval

\* C13: the learning rate is strictly positive in every state of a run.
C13_LearningRatePositive == Gt(learning_rate, Zero)

\* C14: every step scale is at least the configured tolerance.
C14_StepScalesAtLeastTolerance ==
    \A i \in Dims : Ge(step_scales[i], tolerance)

\* C15: a call with constraints added that returns, returns a point at
\* which no constraint is violated beyond its tolerance.
C15_ReturnedPointMeetsConstraints ==
    (constraints_on /\ pc = "done" /\ outcome = "converged")
        => ~\E i \in Cons : ViolatedAt(i, optimal_point)

\* What a run reads of the object: every field but the outcome of the last
\* call.
ConfigurationUnchanged == UNCHANGED <<engine_vars, manager_vars, pc, eval>>

\* The derivatives and the evaluation count that calculate_derivatives_at
\* leaves when the probes are made in the given order.
DerivativesInOrder(order) ==
    DerivativesAlong(order, NDim, EvalState, optimal_point,
                     [i \in Dims |-> F(1, 0)])

\* C16: set_tolerance and set_initial_learning_rate called again with the
\* value already stored leave every field as it is, so the run that follows
\* starts from the same state as after one call; and a run has one
\* trajectory: whichever order the derivative probes are evaluated in, the
\* derivatives and the evaluation count are the same.
C16_SettersIdempotentRunDeterministic ==
    [][/\ \A t \in ToleranceSet :
            (tolerance = t /\ set_tolerance(t)) => ConfigurationUnchanged
       /\ (learning_rate = F(5, -1) /\ set_initial_learning_rate(F(5, -1)))
            => ConfigurationUnchanged
       /\ pc = "iterate" =>
            \A o1, o2 \in EvaluationOrders :
               /\ DerivativesInOrder(o1).d = DerivativesInOrder(o2).d
               /\ DerivativesInOrder(o1).es.count
                     = DerivativesInOrder(o2).es.count]_vars

\* Both setters have been called: each can now be called again with the
\* value it stored.
C16_Witness ==
    /\ pc = "config"
    /\ outcome = "returned"
    /\ tolerance = F(5, -3)
    /\ learning_rate = F(5, -1)
    /\ max_eval <= MaxBudget

\* The ways a call of perform_gradient_decent ends.
EndStates == {"converged", "convergence_failed", "back_tracking_failed"}

\* C17: a call of perform_gradient_decent, once begun, reaches its end, and
\* the end is the return, the convergence failure or the back-tracking
\* failure; on the way the loop body is entered at most max_eval + 1 times,
\* a back-tracking step tries at most iterative_count_max + 1 candidates and
\* a secant search makes at most iterative_max + 1 passes.
C17_RunTerminates ==
    /\ [][/\ eval' <= max_eval + 1
          /\ use_classic_gd => iterative_count' <= iterative_count_max + 1
          /\ ~use_classic_gd => iterative_count' <= iterative_max + 1
          /\ pc' = "done" => outcome' \in EndStates
          /\ pc' # "done" => outcome' \notin EndStates
          /\ RunStep => Advance /\ position' # position]_vars
    /\ (pc = "iterate" /\ eval = 0) ~> (pc = "done")

\* A call has ended after a secant search that used all its passes.
C17_Witness ==
    /\ pc = "done"
    /\ outcome \in EndStates
    /\ ~use_classic_gd
    /\ iterative_count = iterative_max + 1

\* The minimum of the "bowl" objective, where its value is 0.
BowlMinimum == <<F(1, 0), F(-1, 0)>>

\* C18: a call on the convex bowl with its minimum inside both bounds and
\* the default budget ends by returning, and the point returned is within
\* tolerance of the minimum and the value returned within tolerance of the
\* minimum's value.
C18_ConvergesToMinimum ==
    (/\ pc = "done"
     /\ objective = "bowl"
     /\ max_eval = default_max_eval
     /\ lower_bounds = ExampleLower
     /\ upper_bounds = ExampleUpper)
        => /\ outcome = "converged"
           /\ Le(get_distance_tuple(optimal_point, BowlMinimum), tolerance)
           /\ Le(Abs(optimal_val), tolerance)

\* The point one step from p against the derivatives at the given rate,
\* each coordinate clamped into its bounds.
SteppedFrom(p, rate) ==
    [i \in Dims |->
        ProjectCoordinate(Sub(p[i], Mul(Mul(derivatives[i], rate),
                                        step_scales[i])),
                          lower_bounds[i], upper_bounds[i])]

\* C19: the first trial of a secant step enters the search exactly when
\* its value is greater than the current value; when the search is left,
\* the learning rate is half the sum of the learning rate and the rate
\* found, the current point is the point one step at that rate from the
\* point the iteration started from, clamped into the bounds, the current
\* value is the value at that point whatever it is, and the step is over
\* after this second candidate.
C19_SecantRetryAcceptedUnconditionally ==
    [][/\ (pc = "step" /\ ~use_classic_gd) =>
            (pc' = "secant" <=> Gt(test_optimal', optimal_val))
       /\ (pc = "secant" /\ pc' # "secant") =>
            /\ learning_rate'
                  = Mul(Add(learning_rate, new_rate'), F(5, -1))
            /\ optimal_point' = SteppedFrom(old_optimal_point, learning_rate')
            /\ optimal_val' = SpecifiedValue(optimal_point', penalty')
            /\ attempts = 1
            /\ attempts' = 2
            /\ pc' = "looptest"]_vars

\* A secant step has ended with its retried value above the value at the
\* point the iteration started from.
C19_Witness ==
    /\ pc = "looptest"
    /\ ~use_classic_gd
    /\ attempts = 2
    /\ Gt(optimal_val, ObjectiveAt(objective, old_optimal_point))
    /\ IsFinite(learning_rate)

\* C20: when the derivatives are found at a point with a zero coordinate,
\* the derivative of that dimension is found by the backward difference of
\* the catch block, and the run goes on to its step.
C20_ZeroCoordinateTakesBackwardDifference ==
    [][\A i \in Dims :
          (pc = "iterate" /\ optimal_point[i] = Zero /\ pc' # pc) =>
             (ForwardDifferenceThrows(i) /\ pc' = "step")]_vars

C22_SecantSearchWithinHundredPasses ==
    [][/\ (pc = "step" /\ pc' = "secant") =>
             /\ current_rate' = Zero
             /\ new_rate' = F(-5, -1)
             /\ iterative_count' = 0
       /\ pc = "secant" =>
             /\ iterative_count < iterative_max
             /\ func_call_count' =
                   func_call_count + (IF pc' = "secant" THEN 2 ELSE 3)
             /\ pc' = "secant" => SecantFar(new_rate', current_rate')
             /\ pc' # "secant" =>
                   learning_rate' =
                      SecantLearningRate(learning_rate, new_rate')]_vars

\* The greater of a and b, as std::max finds it.
GreaterOf(a, b) == IF Lt(a, b) THEN b ELSE a

\* C23: with derivative scaling on, the step scales are all 1.0 throughout
\* the first iteration; in every later iteration the step scale of each
\* dimension, once the derivatives are found, is the greater of tolerance
\* and sqrt(|derivative / highest derivative|), and at most 1.0.
C23_StepScalesFlooredAndAtMostOne ==
    [][use_scaling =>
          /\ first_iteration_settings' =>
                \A i \in Dims : step_scales'[i] = F(1, 0)
          /\ (pc = "iterate" /\ pc' = "step" /\ ~first_iteration_settings) =>
                \A i \in Dims :
                   /\ step_scales'[i] =
                         GreaterOf(tolerance,
                                   scale_function(derivatives'[i],
                                                  derivative_high'[i]))
                   /\ Le(step_scales'[i], F(1, 0))]_vars

\* C24: in the secant algorithm current_tolerance becomes
\* |optimal_val - test_optimal| exactly when the first trial of a step is
\* not worse than the current value; when it is worse, the search and the
\* retried step leave current_tolerance as it was; nothing else changes it.
C24_SecantLiveToleranceOnlyOnFirstTrial ==
    [][~use_classic_gd =>
          /\ (pc = "step" /\ ~Gt(test_optimal', optimal_val)) =>
                /\ current_tolerance' = Abs(Sub(optimal_val, test_optimal'))
                /\ optimal_val' = test_optimal'
                /\ pc' = "looptest"
          /\ (pc = "step" /\ Gt(test_optimal', optimal_val)) =>
                /\ current_tolerance' = current_tolerance
                /\ pc' = "secant"
          /\ pc # "step" => current_tolerance' = current_tolerance]_vars

\* A step whose first trial was worse has ended with its retry (its second
\* candidate), in an iteration after one whose first trial was accepted:
\* current_tolerance is still what that iteration recorded.
C24_Witness ==
    /\ pc = "looptest"
    /\ ~use_classic_gd
    /\ attempts = 2
    /\ eval >= 1
    /\ current_tolerance # default_current_tolerance
    /\ IsFinite(optimal_val)

\* C25: whenever an iteration of the loop begins, the stored value is what
\* eval_func_at returns at the current point: the objective there, plus the
\* penalty there when constraints are on.
C25_StoredValueIncludesPenalty ==
    pc = "iterate" =>
        optimal_val = eval_func_at(EvalState, optimal_point).val

\* C26: a step's candidate is the point the iteration started from moved
\* against the derivatives by learning_rate * step_scale in every
\* coordinate, unchanged by the projection, when no bounds were added; with
\* the lower bounds alone no coordinate is restricted from above, and with
\* the upper bounds alone none from below.
C26_UnsetBoundsDoNotRestrict ==
    [][pc = "step" =>
          \A i \in Dims :
             /\ (lower_bounds = ZeroPoint /\ upper_bounds = ZeroPoint) =>
                   optimal_point'[i] =
                      create_next_point(IN_POINT, learning_rate)[i]
             /\ (upper_bounds = ZeroPoint
                   /\ Ge(create_next_point(IN_POINT, learning_rate)[i],
                         lower_bounds[i])) =>
                   optimal_point'[i] =
                      create_next_point(IN_POINT, learning_rate)[i]
             /\ (lower_bounds = ZeroPoint
                   /\ Le(create_next_point(IN_POINT, learning_rate)[i],
                         upper_bounds[i])) =>
                   optimal_point'[i] =
                      create_next_point(IN_POINT, learning_rate)[i]]_vars

\* C27: whatever max_eval is, a call enters the loop body before any test
\* of the budget; the loop counter is compared with max_eval and then
\* incremented, and the body is entered again only if the counter was below
\* max_eval; so the body is entered at least once and at most max_eval + 1
\* times (the counter is the number of bodies completed).
C27_BodyRunsOnceToBudgetPlusOne ==
    [][/\ (pc = "config" /\ pc' # "config") => (pc' = "iterate" /\ eval' = 0)
       /\ pc = "iterate" => (eval <= max_eval /\ pc' = "step")
       /\ pc = "looptest" =>
             /\ eval' = eval + 1
             /\ pc' = "iterate" => eval < max_eval
       /\ pc = "postloop" => (eval >= 1 /\ eval <= max_eval + 1)
       /\ pc \notin {"config", "looptest"} => eval' = eval]_vars

\* A call with the greatest budget has ended after max_eval + 1 bodies.
C27_Witness ==
    /\ LoopExited
    /\ max_eval = MaxBudget
    /\ eval = max_eval + 1

C29_ClassicValueNeverIncreases ==
    [][(use_classic_gd /\ pc = "step") =>
          /\ pc' = "looptest" => Le(optimal_val', optimal_val)
          /\ pc' = "step" => optimal_val' = optimal_val
          /\ (test_optimal' = optimal_val /\ ~IsNaN(optimal_val)) =>
                /\ optimal_val' = test_optimal'
                /\ current_tolerance' = Zero
                /\ pc' # "step"]_vars

\* C30: when a back-tracking step ends with the back-tracking failure, its
\* last candidate was rejected and is the current point, the current value
\* and current_tolerance are those from before the step, and the learning
\* rate has been multiplied by 0.99 for every candidate of the step, the
\* last included.
C30_FailedStepKeepsValueAndDecays ==
    [][(use_classic_gd /\ pc = "step") =>
          /\ pc' = "step" =>
                /\ optimal_val' = optimal_val
                /\ current_tolerance' = current_tolerance
                /\ learning_rate' = Mul(learning_rate, back_tracking_decay)
          /\ outcome' = "back_tracking_failed" =>
                /\ Gt(test_optimal', optimal_val)
                /\ optimal_point' = Candidate(learning_rate)
                /\ optimal_val' = optimal_val
                /\ current_tolerance' = current_tolerance
                /\ learning_rate' = Mul(learning_rate, back_tracking_decay)
                /\ attempts' = iterative_count_max + 1]_vars
====
